---- MODULE Spec2Model ----
(***************************************************************************)
(* State-machine model of the synapsebot RSS notification daemon.          *)
(*                                                                         *)
(* The repository holds three variants of the same program:               *)
(*   "rssbot"  src/rssbot.py         asyncio: Scheduler + EventListener   *)
(*   "dev"     src/rssbot_dev.py     synchronous, with send rate limiting *)
(*   "stable"  src/rssbot_stable.py  synchronous                          *)
(* The variable `variant` selects the program a behaviour is about.       *)
(*                                                                         *)
(* Time is the wall clock in seconds, sampled every Step seconds.         *)
(* In the asyncio variant one action is one step of a task between two    *)
(* awaits; in the synchronous variants one action is one blocking call.   *)
(***************************************************************************)
EXTENDS Integers, Sequences, FiniteSets, TLC

\* ---------------------------------------------------------------- bounds
\* Clock horizon (seconds) and clock sampling step.
MaxTime == 120
Step == 30
\* Clock value at process start.
StartNow == 30
\* Wall-clock time of day (seconds after midnight) at process start: 12:00:00.
StartTod == 43200
\* Largest sync pagination token the server hands out.
MaxBatch == 2

\* ------------------------------------------------------ program constants
\* rssbot.py:201  await asyncio.sleep(10)
RetryDelay == 10
\* rssbot_dev.py:63  (time.time() - self.last_sent_time) < 60
RateLimit == 60
\* Seconds between two fire times of the configured cron expression
\* ("* * * * *": every minute).
CronPeriod == 60
DaySeconds == 86400

Variants == {"rssbot", "dev", "stable"}
None == 0 - 1

\* ------------------------------------------------------------ time strings
\* A configured string is a sequence of one-character strings; a config value
\* is [present |-> BOOLEAN, text |-> sequence] (present = FALSE: the key is
\* absent, dict.get gives None).
Absent == [present |-> FALSE, text |-> <<>>]
Str(s) == [present |-> TRUE, text |-> s]

Digits == {"0", "1", "2", "3", "4", "5", "6", "7", "8", "9"}

DigitVal(c) ==
    CASE c = "0" -> 0 [] c = "1" -> 1 [] c = "2" -> 2 [] c = "3" -> 3
      [] c = "4" -> 4 [] c = "5" -> 5 [] c = "6" -> 6 [] c = "7" -> 7
      [] c = "8" -> 8 [] c = "9" -> 9 [] OTHER -> 0

\* Value of a run of one or two digits, None when it is not such a run.
Num(s) ==
    IF Len(s) = 1 /\ s[1] \in Digits THEN DigitVal(s[1])
    ELSE IF Len(s) = 2 /\ s[1] \in Digits /\ s[2] \in Digits
         THEN 10 * DigitVal(s[1]) + DigitVal(s[2])
         ELSE None

\* datetime.strptime(text, "%H:%M").time() in seconds after midnight, None for
\* ValueError: one or two digits of hour (0..23), ":", one or two digits of
\* minute (0..59), and nothing else.
strptime(s) ==
    LET colons == {i \in 1..Len(s) : s[i] = ":"}
    IN  IF \E i \in colons :
              /\ Num(SubSeq(s, 1, i - 1)) \in 0..23
              /\ Num(SubSeq(s, i + 1, Len(s))) \in 0..59
        THEN LET i == CHOOSE i \in colons :
                        /\ Num(SubSeq(s, 1, i - 1)) \in 0..23
                        /\ Num(SubSeq(s, i + 1, Len(s))) \in 0..59
             IN  (Num(SubSeq(s, 1, i - 1)) * 60 + Num(SubSeq(s, i + 1, Len(s)))) * 60
        ELSE None

\* ----------------------------------------------------------- is_mute_time
\* rssbot.py / rssbot_stable.py: if from < to ... else ...
MuteWindowWrap(f, t, n) ==
    IF f < t THEN f <= n /\ n <= t ELSE n >= f \/ n <= t

\* rssbot_dev.py: (from < to and ...) or (from > to and ...)
MuteWindowStrict(f, t, n) ==
    \/ (f < t /\ f <= n /\ n <= t)
    \/ (f > t /\ (n >= f \/ n <= t))

MuteWindow(v, f, t, n) ==
    IF v = "dev" THEN MuteWindowStrict(f, t, n) ELSE MuteWindowWrap(f, t, n)

\* is_mute_time: "muted", "open" (not muted) or "raise" (an exception other
\* than ValueError leaves the function).  from is parsed before to; a None
\* argument of strptime is a TypeError, a missing key of mute[...] a KeyError.
is_mute_time(v, mfrom, mto, n) ==
    IF ~mfrom.present THEN "raise"
    ELSE IF strptime(mfrom.text) = None THEN "open"
    ELSE IF ~mto.present THEN "raise"
    ELSE IF strptime(mto.text) = None THEN "open"
    ELSE IF MuteWindow(v, strptime(mfrom.text), strptime(mto.text), n)
         THEN "muted" ELSE "open"

\* ------------------------------------------------------------------ state
VARIABLES
    variant,        \* which program of the repository runs
    cfgToken,       \* "token" of the config file: "none" when absent
    mute_from,      \* mute["from"] of the config file
    mute_to,        \* mute["to"] of the config file
    startTod,       \* time of day at process start (seconds)
    now,            \* wall clock, seconds since process start
    proc,           \* "starting", "running", "exited"
    exitStatus,     \* exit status of the process, None until it has exited
    sigint,         \* SIGINT has been delivered
    spc,            \* run(): "init", "sleep", "job", "loop" (job() has just
                    \* returned), "stopped"
    next_run,       \* run(): next_run
    jobs,           \* executions of job() that have begun and not returned
    jpc,            \* job(): "idle", "fetch" (feed GET in flight), "send" (POST in flight)
    feedIdx,        \* fetch_random_article: index of the last feed requested,
                    \* 0 when none was
    articles,       \* fetch_random_article: articles
    article,        \* job(): the article fetch_random_article returned
    fetched,        \* feeds whose latest request succeeded
    posts,          \* POSTs issued by this job execution
    last_sent_time, \* rssbot_dev.py: self.last_sent_time
    muteResult,     \* outcome of the last is_mute_time()
    lpc,            \* listen_for_events task
    lexc,           \* the exception the listener task ended with, "none" if none
    lwake,          \* listener: time its asyncio.sleep ends
    ldelay,         \* listener: seconds passed to its last asyncio.sleep
    lfails,         \* consecutive failed polls (saturating at MaxFails)
    since,          \* listener: params["since"], 0 when not set
    lastNb,         \* next_batch of the latest response that carried one, 0
                    \* when none did
    events,         \* listener: room_events while its for loop has not
                    \* finished
    evlog,          \* the requests issued so far for the events of room_events
    evIdx,          \* listener: index of the event being handled
    okSendAt,       \* time the last successful send_message returned, kept
                    \* while it is less than RateLimit seconds old
    jCall,          \* the Scheduler's last send_message call
    lCall,          \* the listener's last send_message call
    token,          \* the token held: the local token of listen_for_events
                    \* (rssbot.py), self.token (dev, stable); "none" before
    reqAfterInt,    \* an HTTP request was issued after SIGINT
    staleReq        \* a request was issued with a bearer token other than
                    \* the token the config held at that moment

cfgVars == <<variant, cfgToken, mute_from, mute_to, startTod>>
schedVars == <<spc, next_run, jobs, jpc, feedIdx, articles, article, fetched,
               posts, muteResult>>
lisVars == <<lpc, lexc, lwake, ldelay, lfails, since, lastNb, events, evIdx, evlog>>
reqVars == <<reqAfterInt, staleReq>>
sendVars == <<last_sent_time, okSendAt, jCall, lCall>>
vars == <<cfgVars, now, proc, exitStatus, sigint, schedVars, lisVars, sendVars, token, reqVars>>

\* Consecutive poll failures counted up to here.
MaxFails == 2
\* Configured feeds (config "rss").
NumFeeds == 2

Range(s) == {s[i] : i \in 1..Len(s)}
Min(a, b) == IF a <= b THEN a ELSE b

NoArticle == [title |-> <<>>, link |-> <<>>]
\* A send_message call: at (time its POST was issued, while in flight), early
\* (made less than RateLimit seconds after the last successful send), result,
\* body (the message).
NoCall == [at |-> None, early |-> FALSE, result |-> "none", body |-> <<>>]

\* entries of the i-th configured feed; a text is a sequence of characters
\* and runs of plain characters
FeedEntries(i) ==
    IF i = 1 THEN <<[title |-> <<"A">>, link |-> <<"http://x/a">>]>>
    ELSE <<[title |-> <<"R", "&", "D">>, link |-> <<"http://y/b?u=1", "&", "v=2">>]>>

\* html.escape(s)
EscapeChar(c) ==
    CASE c = "&" -> "&amp;" [] c = "<" -> "&lt;" [] c = ">" -> "&gt;"
      [] c = "\"" -> "&quot;" [] c = "'" -> "&#x27;" [] OTHER -> c

escape(s) == [i \in DOMAIN s |-> EscapeChar(s[i])]

\* the dict appended to articles for a feed entry (rssbot_dev.py escapes it)
Article(v, e) ==
    IF v = "dev" THEN [title |-> escape(e.title), link |-> escape(e.link)]
    ELSE [title |-> e.title, link |-> e.link]

\* for entry in feed.entries: articles.append({...}); entry.title or
\* entry.link of an entry without one raises AttributeError in the middle of
\* the loop, with the entries before it already appended
RECURSIVE AppendEntries(_, _, _)
AppendEntries(v, arts, es) ==
    IF es = <<>> THEN [articles |-> arts, raised |-> FALSE]
    ELSE IF {"title", "link"} \subseteq DOMAIN Head(es)
         THEN AppendEntries(v, Append(arts, Article(v, Head(es))), Tail(es))
         ELSE [articles |-> arts, raised |-> TRUE]

\* feed.entries of the parsed response to the request for feed i that ended
\* with o: the feed's entries, with "bad_entry" followed by one without title
Served(i, o) ==
    CASE o = "ok" -> FeedEntries(i)
      [] o = "bad_entry" -> Append(FeedEntries(i), [link |-> <<"http://z/c">>])
      [] OTHER -> <<>>

\* datetime.now().time()
Tod(t) == (startTod + t) % DaySeconds

\* croniter(cron, base).get_next(): the first fire time strictly after base
CronNext(base) == ((base \div CronPeriod) + 1) * CronPeriod

\* rssbot.py, rssbot_stable.py: a new croniter from base_time = datetime.now()
\* after each job; rssbot_dev.py: one croniter, get_next() after get_next().
NextFire(v, prev, t) == IF v = "dev" THEN CronNext(prev) ELSE CronNext(t)

\* __init__: does construction succeed
ConfigValid(v, tok, mfrom, mto) ==
    CASE v = "rssbot" -> TRUE
      [] v = "dev" -> tok # "none"
      [] v = "stable" -> /\ tok # "none"
                         /\ mfrom.present /\ mfrom.text # <<>>
                         /\ mto.present /\ mto.text # <<>>

\* ------------------------------------------------------------ send_message
\* What send_message does before any request: "no_token" (rssbot.py: the token
\* read from the file is empty), "rate_limited" (rssbot_dev.py: less than 60 s
\* since last_sent_time), or "post" (the POST is issued).
send_message(v, tok, last, t) ==
    IF v = "rssbot" /\ tok = "none" THEN "no_token"
    ELSE IF v = "dev" /\ last # None /\ t - last < RateLimit THEN "rate_limited"
    ELSE "post"

\* How an awaited or blocking HTTP exchange can end.
Transport == {"ok", "http_error", "conn_error", "timeout"}

\* except aiohttp.ClientError (rssbot.py) catches the error status raised by
\* raise_for_status and connection errors, and not asyncio.TimeoutError, which
\* aiohttp's total timeout raises; except requests.exceptions.RequestException
\* (dev, stable) catches all three.
Caught(v, o) ==
    IF v = "rssbot" THEN o \in {"http_error", "conn_error"}
    ELSE o \in {"http_error", "conn_error", "timeout"}

\* send_message / mark_message_as_read after the exchange: "ok" (True),
\* "fail" (False) or "raise" (the exception leaves the function).
PostResult(v, o) ==
    IF o = "ok" THEN "ok" ELSE IF Caught(v, o) THEN "fail" ELSE "raise"

\* message = f"New article: {article['title']}\n{article['link']}"
ArticleMessage(v, a) ==
    <<IF v = "rssbot" THEN "New article: " ELSE "Nuovo articolo: ">>
      \o a.title \o <<"\n">> \o a.link
\* welcome_message = f"Welcome to the room, {user_id}!"
WelcomeMessage(user) == <<"Welcome to the room, ", user, "!">>

\* ---------------------------------------------------------------- asyncio
\* The listener's states in which it is suspended at an await (rssbot.py
\* lines 177, 192, 197, 201): the event loop is free to run the other task.
ListenerAwaits_blockingPoll == {"receipt", "welcome", "backoff"}

ListenerAwaits == {"sync", "receipt", "welcome", "backoff"}

\* The listener task exists and has not ended.
ListenerAlive == {"created", "sync", "receipt", "welcome", "backoff"}

\* The listener task is not executing: it has not started, is suspended at an
\* await, or has ended.  Only then can the event loop run a step of run().
ListenerYielded_joined ==
    lpc \in ListenerAwaits \cup {"none", "created", "cancelling", "cancelled"}

ListenerYielded ==
    lpc \in ListenerAwaits \cup {"none", "created", "returned", "crashed",
                                 "cancelling", "cancelled"}

\* The Scheduler's states in which run() is suspended at an await (rssbot.py
\* lines 246 and, through job(), 72 and 111), or has ended.
SchedYielded == spc \in {"sleep", "job", "stopped"}

\* task.cancel() on the listener task
CancelTask(l) == IF l \in ListenerAlive THEN "cancelling" ELSE l

\* ----------------------------------------------------------------- events
\* What the listener's loop body does with one event: "KeyError" when a key it
\* indexes is missing, "receipt", "welcome" or "skip".
EventKind(e) ==
    IF "type" \notin DOMAIN e THEN "KeyError"
    ELSE IF e.type = "m.room.message"
         THEN IF "event_id" \in DOMAIN e THEN "receipt" ELSE "KeyError"
    ELSE IF e.type = "m.room.member"
         THEN IF "membership" \notin DOMAIN e THEN "KeyError"
              ELSE IF e.membership # "join" THEN "skip"
              ELSE IF "state_key" \in DOMAIN e THEN "welcome" ELSE "KeyError"
    ELSE "skip"

EvMsg == [type |-> "m.room.message", event_id |-> "$m1"]
EvJoin == [type |-> "m.room.member", membership |-> "join", state_key |-> "@u:hs"]
EvLeave == [type |-> "m.room.member", membership |-> "leave", state_key |-> "@u:hs"]
EvBad == [event_id |-> "$x"]

\* timelines a sync response may carry for the configured room
EventLists == {<<>>, <<EvMsg>>, <<EvJoin>>, <<EvMsg, EvJoin>>, <<EvLeave>>, <<EvBad>>}

\* The for loop over room_events from index i on, up to its next await:
\* [pc, idx] with pc "receipt"/"welcome" (a POST is issued for event idx),
\* "crashed" (KeyError) or "sync" (the list is done and the next poll issued).
RECURSIVE NextEvent(_, _, _, _)
NextEvent(evs, i, tok, t) ==
    IF i > Len(evs) THEN [pc |-> "sync", idx |-> 0]
    ELSE LET k == EventKind(evs[i])
         IN  CASE k = "KeyError" -> [pc |-> "crashed", idx |-> i]
               [] k = "receipt" ->
                    IF tok = "none" THEN NextEvent(evs, i + 1, tok, t)
                    ELSE [pc |-> "receipt", idx |-> i]
               [] k = "welcome" ->
                    IF send_message("rssbot", tok, None, t) = "post"
                    THEN [pc |-> "welcome", idx |-> i]
                    ELSE NextEvent(evs, i + 1, tok, t)
               [] OTHER -> NextEvent(evs, i + 1, tok, t)

\* await asyncio.sleep(10): the delay after the fails-th consecutive failure
RECURSIVE Pow2(_)
Pow2(n) == IF n <= 0 THEN 1 ELSE 2 * Pow2(n - 1)

\* 1, 2, 4, ... seconds, at most 60
Doubling(fails) == Min(Pow2(fails - 1), 60)

BackoffDelay_doubling(fails) == Doubling(fails)

BackoffDelay(fails) == RetryDelay

\* feed fetches can end: parsed, bozo (malformed), an exception, and in
\* rssbot.py a status other than 200
FetchOutcomes(v) ==
    IF v = "rssbot" THEN {"ok", "bad_entry", "bozo", "exception", "status"}
    ELSE {"ok", "bad_entry", "bozo", "exception"}

\* the sync poll can also end with a body that is not JSON
SyncOutcomes == Transport \cup {"bad_json"}

\* ------------------------------------------------------------------- Init
T5(a, b, c, d, e) == Str(<<a, b, c, d, e>>)

\* mute windows of the configuration: open at noon, muted at noon, "from"
\* absent (MuteSpec below draws malformed values too)
MuteConfigs ==
    { <<T5("2", "2", ":", "0", "0"), T5("0", "6", ":", "0", "0")>>,
      <<T5("0", "9", ":", "0", "0"), T5("1", "7", ":", "0", "0")>>,
      <<Absent, T5("0", "6", ":", "0", "0")>> }

InitRest ==
    /\ proc = "starting"
    /\ exitStatus = None
    /\ sigint = FALSE
    /\ spc = "init" /\ next_run = 0 /\ jobs = 0 /\ jpc = "idle"
    /\ feedIdx = 0 /\ articles = <<>> /\ article = NoArticle
    /\ fetched = {} /\ posts = 0
    /\ last_sent_time = None
    /\ muteResult = "unset"
    /\ lpc = "none" /\ lexc = "none" /\ lwake = 0 /\ ldelay = 0 /\ lfails = 0
    /\ since = 0 /\ lastNb = 0 /\ events = <<>> /\ evIdx = 0 /\ evlog = <<>>
    /\ okSendAt = None
    /\ jCall = NoCall /\ lCall = NoCall
    /\ token = "none"
    /\ reqAfterInt = FALSE /\ staleReq = FALSE

Init ==
    /\ variant \in Variants
    /\ cfgToken \in {"none", "tok"}
    /\ \E m \in MuteConfigs : mute_from = m[1] /\ mute_to = m[2]
    /\ startTod = StartTod
    /\ now = StartNow
    /\ InitRest

\* ---------------------------------------------------------------- actions
lisRest == <<lexc, lwake, ldelay, lfails, since, lastNb, events, evIdx, evlog>>

Sched(pc, nr, jb, jp) ==
    /\ spc' = pc /\ next_run' = nr /\ jobs' = jb /\ jpc' = jp

\* what the job execution in flight, or the one that has just returned,
\* fetched and sent
jobData == <<feedIdx, articles, article, fetched, posts>>

\* the locals of job() and fetch_random_article are gone
JobEnds ==
    /\ feedIdx' = 0 /\ articles' = <<>> /\ article' = NoArticle
    /\ posts' = 0

\* job() returns to run().  jb: the executions in flight, this one included.
JobReturns(jb) ==
    Sched("loop", next_run, jb - 1, "idle")

\* an exception leaves job(): run()'s except Exception and finally end run()
RunAborts(jb) ==
    Sched("stopped", next_run, jb - 1, "idle")

\* a send_message call returned True at time t
OkSend(t) == okSendAt' = t

\* the call is made less than RateLimit seconds after the last successful send
Early(t) == okSendAt # None /\ t - okSendAt < RateLimit

\* if b, a request is issued; tok is the bearer token it carries, "public"
\* for a feed request, which carries none
Issues(b, tok) ==
    /\ reqAfterInt' = (reqAfterInt \/ (b /\ sigint))
    /\ staleReq' = (staleReq \/ (b /\ tok \notin {"public", cfgToken}))

\* the token send_message puts in its Authorization header: rssbot.py reads
\* the config file at each call, dev and stable use self.token
SendToken == IF variant = "rssbot" THEN cfgToken ELSE token

\* __main__: the exception of a failed RSSBot(...) is caught and logged
\* (except Exception), KeyboardInterrupt likewise in rssbot.py, run() returns
\* after its own except clauses; in each case the script runs off its end.
\* Anything else would leave with a traceback.
ExitStatus(cause) ==
    IF cause \in {"startup_error", "interrupt", "run_returned"} THEN 0 ELSE 1

\* __main__ and the head of run(): RSSBot(config), base_time, create_task,
\* the first croniter and the first sleep.
Startup ==
    /\ proc = "starting"
    /\ IF ConfigValid(variant, cfgToken, mute_from, mute_to)
       THEN /\ proc' = "running"
            /\ spc' = "sleep"
            /\ next_run' = CronNext(now)
            /\ lpc' = IF variant = "rssbot" THEN "created" ELSE "none"
            /\ token' = IF variant = "rssbot" THEN token ELSE cfgToken
            /\ UNCHANGED exitStatus
       ELSE /\ proc' = "exited"
            /\ exitStatus' = ExitStatus("startup_error")
            /\ UNCHANGED <<spc, next_run, lpc, token>>
    /\ UNCHANGED <<cfgVars, now, sigint, jobs, jpc, jobData, muteResult, lisRest,
                   sendVars, reqVars>>

\* job(): if not self.is_mute_time(): fetch and send, else skip
JobBranch_unmuted(m) == IF m = "raise" THEN "raise" ELSE "fetch"

JobBranch(m) ==
    CASE m = "muted" -> "skip" [] m = "raise" -> "raise" [] OTHER -> "fetch"

\* run(): the sleep is over; job() begins: is_mute_time, then the first feed
\* GET.  awaiting: where run() is while job() executes.
SchedWakeThen(awaiting) ==
    /\ proc = "running" /\ spc = "sleep" /\ now >= next_run
    /\ ListenerYielded
    /\ LET m == is_mute_time(variant, mute_from, mute_to, Tod(now))
           b == JobBranch(m)
       IN  /\ muteResult' = m
           /\ CASE b = "skip" -> JobReturns(jobs + 1) /\ lpc' = lpc
                [] b = "raise" -> RunAborts(jobs + 1) /\ lpc' = CancelTask(lpc)
                [] OTHER -> /\ Sched(awaiting, next_run, jobs + 1, "fetch")
                            /\ lpc' = lpc
           /\ feedIdx' = IF b = "fetch" THEN 1 ELSE 0
           /\ Issues(b = "fetch", "public")
    /\ UNCHANGED <<cfgVars, exitStatus, now, proc, sigint, articles, article, fetched, posts,
                   lisRest, sendVars, token>>

\* a variant of the loop that starts job() and does not wait for it
SchedWake_detached == SchedWakeThen("sleep")

\* await self.job(): run() is suspended until job() returns
SchedWake == SchedWakeThen("job")

\* run() after job() has returned: base_time = datetime.now(), then the next
\* loop iteration up to its sleep.  The locals of the job are gone.
RunLoop ==
    /\ proc = "running" /\ spc = "loop"
    /\ Sched("sleep", NextFire(variant, next_run, now), jobs, jpc)
    /\ JobEnds
    /\ jCall' = NoCall
    /\ UNCHANGED <<cfgVars, exitStatus, token, now, proc, sigint, fetched, muteResult, lisVars,
                   last_sent_time, okSendAt, lCall, reqVars>>

\* for feed_url in self.rss_feeds: the feed requested after feed i, whose
\* request ended with o (a failure is logged and the loop continues); 0 when
\* the loop is over
NextFeed_abort(i, o) == IF o = "ok" /\ i < NumFeeds THEN i + 1 ELSE 0

NextFeed(i, o) == IF i < NumFeeds THEN i + 1 ELSE 0

\* fetch_random_article: the GET of feed feedIdx ended with o; then the next
\* feed, or random.choice and send_message up to its POST.
FeedResponse(o) ==
    /\ proc = "running" /\ jpc = "fetch"
    /\ ListenerYielded
    /\ o \in FetchOutcomes(variant)
    /\ LET r == AppendEntries(variant, articles, Served(feedIdx, o))
           good == o = "ok" /\ ~r.raised
       IN  /\ articles' = r.articles
           /\ fetched' = IF good THEN fetched \cup {feedIdx} ELSE fetched \ {feedIdx}
           /\ IF NextFeed(feedIdx, o) # 0
              THEN /\ Sched(spc, next_run, jobs, "fetch")
                   /\ feedIdx' = NextFeed(feedIdx, o)
                   /\ Issues(TRUE, "public")
                   /\ UNCHANGED <<article, posts, sendVars>>
              ELSE IF r.articles = <<>>
              THEN /\ JobReturns(jobs)
                   /\ UNCHANGED <<feedIdx, article, posts, sendVars, reqVars>>
              ELSE \E a \in Range(r.articles) :
                     LET d == send_message(variant, cfgToken, last_sent_time, now)
                     IN  /\ article' = a
                         /\ jCall' = [at |-> IF d = "post" THEN now ELSE None,
                                      early |-> Early(now),
                                      result |-> IF d = "post" THEN "pending" ELSE d,
                                      body |-> ArticleMessage(variant, a)]
                         /\ posts' = IF d = "post" THEN posts + 1 ELSE posts
                         /\ IF d = "post"
                            THEN /\ Sched(spc, next_run, jobs, "send")
                                 /\ Issues(TRUE, SendToken)
                            ELSE /\ JobReturns(jobs)
                                 /\ UNCHANGED reqVars
                         /\ UNCHANGED <<feedIdx, last_sent_time, okSendAt, lCall>>
    /\ UNCHANGED <<cfgVars, exitStatus, now, proc, sigint, muteResult, lisVars, token>>

\* send_message: the POST ended with o
SendResponse(o) ==
    /\ proc = "running" /\ jpc = "send"
    /\ ListenerYielded
    /\ LET r == PostResult(variant, o)
       IN  /\ jCall' = [jCall EXCEPT !.result = r, !.at = None]
           /\ IF r = "ok"
              THEN /\ OkSend(now)
                   /\ last_sent_time' = IF variant = "dev" THEN now ELSE last_sent_time
              ELSE UNCHANGED <<last_sent_time, okSendAt>>
           /\ IF r = "raise"
              THEN RunAborts(jobs) /\ lpc' = CancelTask(lpc)
              ELSE JobReturns(jobs) /\ lpc' = lpc
    /\ UNCHANGED <<cfgVars, exitStatus, token, now, proc, sigint, jobData, muteResult, lisRest,
                   lCall, reqVars>>

\* the request the for loop issues for event e: the receipt names
\* event["event_id"], the welcome message names event["state_key"]
Request(kind, e) ==
    [kind |-> kind, target |-> IF kind = "receipt" THEN e.event_id ELSE e.state_key]

\* The listener's for loop goes on from event i of evs, up to its next await.
\* call: the record of the listener's last send_message call so far.
LisContinue(evs, i, call) ==
    LET n == NextEvent(evs, i, cfgToken, now)
    IN  /\ lpc' = n.pc
        /\ lexc' = IF n.pc = "crashed" THEN "KeyError" ELSE lexc
        /\ evIdx' = n.idx
        /\ events' = IF n.pc = "sync" THEN <<>> ELSE evs
        /\ evlog' = LET log == IF i = 1 THEN <<>> ELSE evlog
                     IN  CASE n.pc = "sync" -> <<>>
                           [] n.pc = "crashed" -> log
                           [] OTHER -> Append(log, Request(n.pc, evs[n.idx]))
        /\ lCall' = IF n.pc = "welcome"
                    THEN [at |-> now, early |-> Early(now), result |-> "pending",
                          body |-> WelcomeMessage(evs[n.idx].state_key)]
                    ELSE IF n.pc = "sync" THEN NoCall ELSE call
        /\ Issues(n.pc # "crashed", IF n.pc = "sync" THEN token ELSE cfgToken)

\* listen_for_events begins: the token is read once, then the first poll
ListenerStart ==
    /\ proc = "running" /\ lpc = "created"
    /\ SchedYielded
    /\ IF cfgToken = "none"
       THEN lpc' = "returned" /\ UNCHANGED reqVars
       ELSE lpc' = "sync" /\ Issues(TRUE, cfgToken)
    /\ token' = cfgToken
    /\ UNCHANGED <<cfgVars, exitStatus, now, proc, sigint, schedVars, lisRest, sendVars>>

\* the next_batch the server puts in its response to a poll that carried
\* cur: a later position of the stream (the last one at the end), 0 when
\* the response has no next_batch
NextBatch(cur, hasNb) == IF hasNb THEN Min(cur + 1, MaxBatch) ELSE 0

\* params["since"] after the poll ended with o and next_batch nb:
\* next_batch = data.get("next_batch"); if next_batch: params["since"] = ...
CursorAfter_resetOnFailure(cur, o, nb) ==
    IF o = "ok" THEN (IF nb # 0 THEN nb ELSE cur) ELSE 0

CursorAfter(cur, o, nb) == IF o = "ok" /\ nb # 0 THEN nb ELSE cur

\* the GET /sync ended with o; on success the body carries the timeline evs
\* of the room and, with hasNb, a next_batch token
SyncResponse(o, evs, hasNb) ==
    /\ proc = "running" /\ lpc = "sync"
    /\ SchedYielded
    /\ since' = CursorAfter(since, o, NextBatch(since, hasNb))
    /\ lastNb' = IF o = "ok" /\ hasNb THEN NextBatch(since, hasNb) ELSE lastNb
    /\ CASE o = "ok" ->
              /\ lfails' = 0
              /\ LisContinue(evs, 1, lCall)
              /\ UNCHANGED <<lwake, ldelay>>
         [] Caught("rssbot", o) ->
              /\ lfails' = Min(lfails + 1, MaxFails)
              /\ ldelay' = BackoffDelay(Min(lfails + 1, MaxFails))
              /\ lwake' = now + BackoffDelay(Min(lfails + 1, MaxFails))
              /\ lpc' = "backoff"
              /\ UNCHANGED <<lexc, events, evIdx, evlog, lCall, reqVars>>
         [] OTHER ->
              /\ lpc' = "crashed"
              /\ lexc' = IF o = "timeout" THEN "TimeoutError" ELSE "JSONDecodeError"
              /\ UNCHANGED <<lwake, ldelay, lfails, events, evIdx, evlog, lCall, reqVars>>
    /\ UNCHANGED <<cfgVars, exitStatus, token, now, proc, sigint, schedVars, last_sent_time,
                   okSendAt, jCall>>

\* mark_message_as_read: the POST ended with o
ReceiptResponse(o) ==
    /\ proc = "running" /\ lpc = "receipt"
    /\ SchedYielded
    /\ IF PostResult("rssbot", o) = "raise"
       THEN /\ lpc' = "crashed"
            /\ lexc' = "TimeoutError"
            /\ UNCHANGED <<events, evIdx, evlog, lCall, reqVars>>
       ELSE LisContinue(events, evIdx + 1, lCall)
    /\ UNCHANGED <<cfgVars, exitStatus, token, now, proc, sigint, schedVars, lwake, ldelay, lfails,
                   since, lastNb, last_sent_time, okSendAt, jCall>>

\* send_message of the welcome: the POST ended with o
WelcomeResponse(o) ==
    /\ proc = "running" /\ lpc = "welcome"
    /\ SchedYielded
    /\ LET r == PostResult("rssbot", o)
       IN  /\ IF r = "ok" THEN OkSend(now) ELSE UNCHANGED okSendAt
           /\ IF r = "raise"
              THEN /\ lpc' = "crashed"
                   /\ lexc' = "TimeoutError"
                   /\ lCall' = [lCall EXCEPT !.result = r, !.at = None]
                   /\ UNCHANGED <<events, evIdx, evlog, reqVars>>
              ELSE LisContinue(events, evIdx + 1, [lCall EXCEPT !.result = r, !.at = None])
    /\ UNCHANGED <<cfgVars, exitStatus, token, now, proc, sigint, schedVars, lwake, ldelay, lfails,
                   since, lastNb, last_sent_time, jCall>>

\* the listener's asyncio.sleep is over: the next poll
BackoffDone ==
    /\ proc = "running" /\ lpc = "backoff" /\ now >= lwake
    /\ SchedYielded
    /\ lpc' = "sync"
    /\ lwake' = 0 /\ ldelay' = 0
    /\ Issues(TRUE, token)
    /\ UNCHANGED <<cfgVars, exitStatus, token, now, proc, sigint, schedVars, lexc, lfails, since,
                   lastNb, events, evIdx, evlog, sendVars>>

\* CancelledError is thrown into the listener at its await
ListenerCancelled ==
    /\ lpc = "cancelling"
    /\ lpc' = "cancelled"
    /\ UNCHANGED <<cfgVars, exitStatus, token, now, proc, sigint, schedVars, lisRest, sendVars,
                   reqVars>>

\* a handler that logs and returns
handle_sigint_logonly ==
    /\ proc = "running" /\ ~sigint
    /\ sigint' = TRUE
    /\ UNCHANGED <<cfgVars, exitStatus, token, now, proc, schedVars, lisVars, sendVars, reqVars>>

\* SIGINT: KeyboardInterrupt is raised in the main thread.  Inside run() it is
\* caught there (except KeyboardInterrupt, finally: cancel the other tasks);
\* elsewhere it leaves the event loop and asyncio.run cancels every task.
\* Either way run() ends and the listener is cancelled before any task runs.
handle_sigint ==
    /\ proc = "running" /\ ~sigint
    /\ sigint' = TRUE
    /\ Sched("stopped", next_run, 0, "idle")
    /\ JobEnds
    /\ lpc' = CancelTask(lpc)
    /\ UNCHANGED <<cfgVars, exitStatus, token, now, proc, fetched, muteResult, lisRest, sendVars,
                   reqVars>>

\* asyncio.run returns (or bot.run() in the synchronous variants): the process ends
ProcessExit ==
    /\ proc = "running" /\ spc = "stopped"
    /\ lpc \notin ListenerAlive \cup {"cancelling"}
    /\ proc' = "exited"
    /\ exitStatus' = ExitStatus(IF sigint THEN "interrupt" ELSE "run_returned")
    /\ UNCHANGED <<cfgVars, token, now, sigint, schedVars, lisVars, sendVars, reqVars>>

\* A timer is due and its task can run: timers fire before the clock moves on.
TimerDue ==
    \/ spc = "sleep" /\ now >= next_run /\ ListenerYielded
    \/ lpc = "backoff" /\ now >= lwake /\ SchedYielded

Tick ==
    /\ proc = "running" /\ spc \notin {"loop", "stopped"}
    /\ ~TimerDue
    /\ now + Step <= MaxTime
    /\ now' = now + Step
    /\ okSendAt' = IF okSendAt # None /\ now + Step - okSendAt >= RateLimit
                   THEN None ELSE okSendAt
    /\ UNCHANGED <<cfgVars, exitStatus, token, proc, sigint, schedVars, lisVars, last_sent_time,
                   jCall, lCall, reqVars>>

Next ==
    \/ Startup
    \/ Tick
    \/ SchedWake
    \/ RunLoop
    \/ \E o \in FetchOutcomes(variant) : FeedResponse(o)
    \/ \E o \in Transport : SendResponse(o)
    \/ ListenerStart
    \/ \E o \in SyncOutcomes, evs \in EventLists, hasNb \in BOOLEAN :
          SyncResponse(o, evs, hasNb)
    \/ \E o \in Transport : ReceiptResponse(o)
    \/ \E o \in Transport : WelcomeResponse(o)
    \/ BackoffDone
    \/ ListenerCancelled
    \/ handle_sigint
    \/ ProcessExit

Spec == Init /\ [][Next]_vars

\* The shutdown path runs to its end: asyncio.run drives the loop until the
\* cancelled tasks have finished and then returns.
FairSpec == Spec /\ WF_vars(ListenerCancelled) /\ WF_vars(ProcessExit)

\* ------------------------------------------------------- token rotation
\* The operator writes a new token into the config file while the bot runs.
RotateToken ==
    /\ proc = "running" /\ cfgToken = "tok"
    /\ cfgToken' = "tok2"
    /\ UNCHANGED <<exitStatus, variant, mute_from, mute_to, startTod, now, proc, sigint,
                   schedVars, lisVars, sendVars, token, reqVars>>

\* one configuration: token present, mute window 22:00-06:00
RotInit ==
    /\ Init
    /\ cfgToken = "tok"
    /\ mute_from = T5("2", "2", ":", "0", "0")

RotNext == Next \/ RotateToken

RotSpec == RotInit /\ [][RotNext]_vars

\* ------------------------------------------------- is_mute_time on its own
\* Time strings with the time of day they denote, and other config values.
TimeSamples ==
    { [text |-> <<"2", "2", ":", "0", "0">>, secs |-> 79200],
      [text |-> <<"0", "6", ":", "0", "0">>, secs |-> 21600],
      [text |-> <<"0", "9", ":", "0", "0">>, secs |-> 32400],
      [text |-> <<"1", "7", ":", "0", "0">>, secs |-> 61200],
      [text |-> <<"0", "0", ":", "0", "0">>, secs |-> 0],
      [text |-> <<"2", "3", ":", "5", "9">>, secs |-> 86340] }

BadTexts ==
    { <<"2", "5", ":", "0", "0">>, <<"1", "2", ":", "6", "0">>, <<>>,
      <<"n", "o", "o", "n">>, <<"1", "2", "0", "0">> }

MuteValues ==
    {Str(x.text) : x \in TimeSamples} \cup {Str(b) : b \in BadTexts} \cup {Absent}

\* times of day: 23:30, 05:00, 12:00, 20:00, 00:00, 06:00, 06:00:20, 09:00,
\* 17:00, 22:00, 23:59:59
NowSamples ==
    {84600, 18000, 43200, 72000, 0, 21600, 21620, 32400, 61200, 79200, 86399}

MuteInit ==
    /\ variant \in Variants
    /\ cfgToken = "tok"
    /\ mute_from \in MuteValues
    /\ mute_to \in MuteValues
    /\ ConfigValid(variant, cfgToken, mute_from, mute_to)
    /\ startTod \in NowSamples
    /\ now = 0
    /\ InitRest

\* is_mute_time() is called on the constructed bot
MuteProbe ==
    /\ muteResult = "unset"
    /\ muteResult' = is_mute_time(variant, mute_from, mute_to, Tod(now))
    /\ UNCHANGED <<cfgVars, exitStatus, token, now, proc, sigint, spc, next_run, jobs, jpc, jobData,
                   lisVars, sendVars, reqVars>>

MuteNext == MuteProbe

MuteSpec == MuteInit /\ [][MuteNext]_vars

\* ================================================================= claims

\* C1: in every reachable state at most one execution of job() is in flight:
\* a job execution begins only when the one before it has returned.
C1_OneJobAtATime == jobs <= 1 /\ (jobs = 1 <=> jpc # "idle")

\* the second job of a run is in flight, fired at the second cron instant,
\* its POST awaited, while the listener task is active
C1_Witness ==
    /\ variant = "rssbot" /\ lpc \in ListenerAwaits
    /\ jobs = 1 /\ jpc = "send"
    /\ next_run = 2 * CronPeriod /\ now = 2 * CronPeriod

\* C2: the listener and the Scheduler never block each other.  While the
\* listener is suspended (awaiting a sync response, a receipt or welcome POST
\* of the events it processes, or its sleep after a failure) the Scheduler's
\* due job can begin and its awaited responses can be handled; while the
\* Scheduler sleeps or awaits a feed/send response the listener's poll can
\* complete and its next poll be issued.
C2_NoMutualBlocking ==
    (proc = "running") =>
      /\ (lpc \in {"sync", "receipt", "welcome", "backoff"} /\ spc = "sleep" /\ now >= next_run)
            => ENABLED SchedWake
      /\ (lpc \in {"sync", "receipt", "welcome", "backoff"} /\ jpc = "fetch")
            => ENABLED (\E o \in FetchOutcomes(variant) : FeedResponse(o))
      /\ (lpc \in {"sync", "receipt", "welcome", "backoff"} /\ jpc = "send")
            => ENABLED (\E o \in Transport : SendResponse(o))
      /\ (spc \in {"sleep", "job"} /\ lpc = "sync")
            => ENABLED (\E o \in SyncOutcomes, evs \in EventLists, hasNb \in BOOLEAN :
                          SyncResponse(o, evs, hasNb))
      /\ (spc \in {"sleep", "job"} /\ lpc = "backoff" /\ now >= lwake)
            => ENABLED BackoffDone
      /\ (spc \in {"sleep", "job"} /\ lpc = "created")
            => ENABLED ListenerStart

\* the listener awaits its sync response at the instant the job is due
C2_Witness ==
    /\ proc = "running" /\ lpc = "sync"
    /\ spc = "sleep" /\ now >= next_run

C4_ListenerNeverEnds == lpc \notin {"returned", "crashed"}

\* C5: once SIGINT is raised, in any state, the Scheduler loop has stopped
\* and the listener is cancelled, no HTTP request is issued afterwards, and
\* the process reaches its exited state with no task left running.
C5_Safe ==
    /\ ~reqAfterInt
    /\ sigint => (spc = "stopped" /\ jpc = "idle" /\ lpc \notin ListenerAlive)
    /\ (sigint /\ proc = "exited") =>
          lpc \in {"none", "returned", "crashed", "cancelled"}

C5_CleanShutdown == []C5_Safe /\ (sigint ~> (proc = "exited"))

\* SIGINT came while the job's POST was in flight and the listener was alive;
\* the process has exited
C5_Witness ==
    /\ sigint /\ proc = "exited"
    /\ lpc = "cancelled" /\ jCall.result = "pending"

\* C6: no network failure (error status, connection error, timeout) of a
\* send, a read receipt or a sync poll propagates out of its component.
C6_FailuresContained ==
    /\ jCall.result # "raise"
    /\ lCall.result # "raise"
    /\ lexc # "TimeoutError"

\* C7: a send_message call made less than 60 seconds after the last
\* successful send issues no request and returns failure; a call is refused
\* for the rate limit only then.
IssuedResults == {"pending", "ok", "fail", "raise"}

C7_RateLimited ==
    /\ jCall.result \in IssuedResults => ~jCall.early
    /\ lCall.result \in IssuedResults => ~lCall.early
    /\ jCall.result = "rate_limited" => jCall.early

\* C8: an article send of the Scheduler and a welcome send of the listener
\* never both issue their request within the same minimum interval.
C8_AtomicRateCheck ==
    ~ ( /\ jpc = "send" /\ lpc = "welcome"
        /\ jCall.at - lCall.at < RateLimit
        /\ lCall.at - jCall.at < RateLimit )

\* C9: for valid from, to and every time of day now, is_mute_time is true
\* iff from <= now <= to when from < to, and iff now >= from or now <= to
\* when from >= to.
SecsOf(c) == (CHOOSE x \in TimeSamples : x.text = c.text).secs
IsTimeSample(c) == c.present /\ \E x \in TimeSamples : x.text = c.text

C9_MuteWindow ==
    (muteResult # "unset" /\ IsTimeSample(mute_from) /\ IsTimeSample(mute_to)) =>
      LET f == SecsOf(mute_from)
          t == SecsOf(mute_to)
          n == Tod(now)
      IN  (muteResult = "muted") <=>
            (IF f < t THEN f <= n /\ n <= t ELSE n >= f \/ n <= t)

\* C10: with a malformed or absent mute from/to value is_mute_time returns
\* not-muted, and nothing is raised into the Scheduler loop.
Malformed(c) == ~c.present \/ strptime(c.text) = None

C10_MalformedMuteOpen ==
    (Malformed(mute_from) \/ Malformed(mute_to)) => muteResult \in {"unset", "open"}

\* s occurs in body as a run of consecutive characters
Contains(body, s) ==
    \E i \in 1..(Len(body) - Len(s) + 1) : SubSeq(body, i, i + Len(s) - 1) = s

\* C11: each execution of job() issues at most one message POST: none, and
\* no feed request, when the mute window is active; none when no article was
\* found; and when the time is not muted and an article was found, one
\* send_message call, whose body contains the article's title and link and
\* which issues the one POST unless it is refused before any request.
C11_OneSendPerJob ==
    /\ posts <= 1
    /\ muteResult = "muted" => (jpc = "idle" /\ feedIdx = 0 /\ posts = 0)
    /\ (spc = "loop" /\ article = NoArticle) => posts = 0
    /\ article # NoArticle =>
          /\ jCall.result # "none"
          /\ Contains(jCall.body, article.title)
          /\ Contains(jCall.body, article.link)
          /\ posts = IF jCall.result \in {"no_token", "rate_limited"} THEN 0 ELSE 1

\* a job of the asyncio bot has returned after one successful POST for the
\* entry with title "A" and link "http://x/a"
C11_Witness ==
    /\ variant = "rssbot" /\ spc = "loop" /\ muteResult = "open"
    /\ posts = 1 /\ jCall.result = "ok"
    /\ article = [title |-> <<"A">>, link |-> <<"http://x/a">>]
    /\ Contains(jCall.body, <<"A">>) /\ Contains(jCall.body, <<"http://x/a">>)

\* C12: every next fire time run() computes after a job cycle is strictly
\* after the time that cycle finished, so no job is started at once for an
\* instant that passed while the previous job ran.
C12_NextFireAfterCompletion ==
    [][(spc = "loop" /\ spc' = "sleep") => next_run' > now]_vars

\* the feeds whose request of this job execution has ended
Responded == 1..(IF jpc = "fetch" THEN feedIdx - 1 ELSE feedIdx)

\* C13: a feed whose request or parse fails is skipped and the batch goes on:
\* every configured feed is requested, and the entries of every feed that
\* did not fail, before or after a failing one, are in the candidate pool.
C13_FailedFeedSkipped ==
    /\ \A i \in fetched \cap Responded : \A k \in 1..Len(FeedEntries(i)) :
          Article(variant, FeedEntries(i)[k]) \in Range(articles)
    /\ (feedIdx > 0 /\ jpc # "fetch") => feedIdx = NumFeeds

\* the first feed failed, the second was fetched, and its entry is the pool
\* from which the article being sent was chosen
C13_Witness ==
    /\ jpc = "send" /\ fetched = {2}
    /\ articles = <<Article(variant, FeedEntries(2)[1])>>
    /\ article \in Range(articles)

\* C14: fetch_random_article returns none iff the candidate pool is empty, in
\* particular when every configured feed failed; otherwise it returns an
\* element of the union of the entries of the feeds fetched successfully.
C14_RandomFromPool ==
    (jpc = "send" \/ (spc = "loop" /\ feedIdx = NumFeeds)) =>
      /\ (article = NoArticle) <=> (articles = <<>>)
      /\ fetched = {} => article = NoArticle
      /\ article # NoArticle =>
            \E i \in fetched : \E k \in 1..Len(FeedEntries(i)) :
                /\ article.title = FeedEntries(i)[k].title
                /\ article.link = FeedEntries(i)[k].link

\* C15: a feed fetched successfully less than 30 minutes ago is served from
\* the cache: no request is issued for it.  Every success of a run happened
\* at StartNow or later, so a request for a feed fetched before is allowed
\* only once 30 minutes have passed since StartNow.
C15_FeedCache ==
    (jpc = "fetch" /\ feedIdx \in fetched) => now - StartNow >= 30 * 60

\* C16: every outbound request that carries the auth token (message send,
\* read receipt, each sync poll) carries the token the config holds at the
\* moment the request is issued.
C16_TokenAtCallTime == ~staleReq

\* C17: when the configuration lacks a required field (here the auth token
\* or a bound of the mute window), startup aborts before the scheduling loop
\* is entered: the listener is never started, no job runs and no request is
\* issued.
C17_BadConfigAborts ==
    (cfgToken = "none" \/ ~mute_from.present \/ ~mute_to.present) =>
      /\ proc \in {"starting", "exited"}
      /\ spc = "init" /\ lpc = "none"
      /\ jobs = 0 /\ jpc = "idle" /\ feedIdx = 0 /\ posts = 0

\* C18: the exit status is 0 when the process stops on a graceful interrupt
\* and non-zero when it stops on a fatal startup error.
C18_ExitStatus ==
    proc = "exited" =>
      /\ sigint => exitStatus = 0
      /\ spc = "init" => exitStatus \notin {None, 0}

\* C19: the since cursor only advances.  The poll in flight carries the
\* next_batch of the latest response that had one, and none before the
\* first such response; the cursor is set as soon as the response is read,
\* before its events are processed; a failed poll or a response without
\* next_batch leaves it unchanged; it never goes back to an earlier value.
C19_CursorAdvances ==
    /\ [](since = lastNb)
    /\ [][/\ since' >= since
          /\ since' # since => (lpc = "sync" /\ lpc' \notin {"backoff", "cancelling"})]_vars

\* the cursor has advanced twice and the poll that carried the second
\* next_batch has failed
C19_Witness == lpc = "backoff" /\ since = 2 /\ lastNb = 2

\* the requests the events evs call for, in order: a read receipt for the
\* event id of each m.room.message, a welcome to the state_key of each
\* m.room.member join, nothing for any other event
RECURSIVE Expected(_)
Expected(evs) ==
    IF evs = <<>> THEN <<>>
    ELSE LET e == Head(evs)
             t == IF "type" \in DOMAIN e THEN e.type ELSE ""
             j == t = "m.room.member" /\ "membership" \in DOMAIN e /\ e.membership = "join"
         IN  (IF t = "m.room.message" THEN <<[kind |-> "receipt", target |-> e.event_id]>>
              ELSE IF j THEN <<[kind |-> "welcome", target |-> e.state_key]>>
              ELSE <<>>) \o Expected(Tail(evs))

\* C20: the events of one poll response are handled in the order received,
\* one at a time.  While the request for event evIdx is in flight, the
\* requests issued so far are exactly those the events up to evIdx call
\* for (one receipt per message for its event id, one welcome per join to
\* its state_key, nothing else), the welcome in flight names that user, and
\* when the listener is done with the response, or has ended, every event
\* of the response has had its request.
C20_EventsInOrder ==
    /\ [](/\ lpc \in {"receipt", "welcome"} =>
                /\ evlog = Expected(SubSeq(events, 1, evIdx))
                /\ lpc = "welcome" => lCall.body = WelcomeMessage(events[evIdx].state_key)
          /\ lpc = "crashed" => evlog = Expected(events))
    /\ [][(lpc \in {"receipt", "welcome"} /\ lpc' = "sync") => evlog = Expected(events)]_vars

\* C21: a failed read receipt or welcome send does not stop the listener.
\* Whatever the outcome of the request in flight for event evIdx, unless the
\* task is cancelled, the listener's next step is the request of the next
\* event of the same response that calls for one (the events in between
\* call for none), or the next poll when no such event is left; it neither
\* ends nor enters the delay of a failed poll.
C21_FailedRequestContinues ==
    [][(/\ lpc \in {"receipt", "welcome"}
        /\ <<lpc, evIdx>>' # <<lpc, evIdx>>
        /\ lpc' \notin {"cancelling", "cancelled"})
       => /\ lpc' \in {"receipt", "welcome", "sync"}
          /\ <<lwake, ldelay, lfails>>' = <<lwake, ldelay, lfails>>
          /\ lpc' = "sync" => Expected(events) = evlog
          /\ lpc' # "sync" => /\ evIdx' > evIdx /\ events' = events
                              /\ evlog' = Expected(SubSeq(events, 1, evIdx'))]_vars

\* C22: between two successful polls the listener waits a fixed non-zero
\* idle delay.  The step that reads a successful response (it moves the
\* cursor) or that finishes the last request of its events never leaves a
\* new poll in flight: the next poll is issued only after a delay.
C22_IdleDelay ==
    [][~(/\ lpc' = "sync"
         /\ \/ lpc \in {"receipt", "welcome"}
            \/ lpc = "sync" /\ since' # since)]_vars

\* C23: when the listener task has ended (it returned for want of a token,
\* or an exception left listen_for_events) the Scheduler is unaffected: the
\* step in which the listener ends changes nothing of the Scheduler, and
\* afterwards the due job still begins and its awaited responses are still
\* handled.  The listener is created once, by run() before its loop, and an
\* ended listener stays ended for the rest of the process.
C23_ListenerEndIsolated ==
    /\ [](/\ (proc = "running" /\ lpc \in {"returned", "crashed"}) =>
                /\ (spc = "sleep" /\ now >= next_run) => ENABLED SchedWake
                /\ jpc = "fetch" => ENABLED (\E o \in FetchOutcomes(variant) : FeedResponse(o))
                /\ jpc = "send" => ENABLED (\E o \in Transport : SendResponse(o))
          /\ (lpc = "none" /\ variant = "rssbot") => (spc = "init" /\ jobs = 0))
    /\ [][/\ (lpc' \in {"returned", "crashed"} /\ lpc' # lpc) => UNCHANGED schedVars
          /\ lpc \in {"returned", "crashed"} => lpc' = lpc
          /\ (lpc' = "created" /\ lpc # "created") => (lpc = "none" /\ proc = "starting")]_vars

\* the listener has ended on the timeout of its first poll and a job has
\* sent its article
C23_Witness ==
    /\ proc = "running" /\ lpc = "crashed" /\ spc = "loop"
    /\ lexc = "TimeoutError" /\ since = 0
    /\ posts = 1 /\ jCall.result = "ok"

====
